---------------------------- MODULE Spec2Model ----------------------------
(***************************************************************************)
(* Paired-fragment coverage engine of alfred: the window counter           *)
(* (bam_dna_counter, src/src/count_dna.h), the track exporter              *)
(* (create_tracks, src/src/tracks.h) and the exon-junction counter         *)
(* (countExonJct, src/src/count_junction.h), one chromosome at a time.     *)
(*                                                                         *)
(* The alignment file is an input: its records are drawn one at a time,    *)
(* in non-decreasing position order (the indexed iterator delivers them    *)
(* sorted), and kept in `stream` because the track exporter reads the      *)
(* same file in a second pass.                                             *)
(***************************************************************************)
EXTENDS Integers, Sequences, FiniteSets, TLC

VARIABLES
  mode,                 \* "count": bam_dna_counter, "track": create_tracks, "junction": countExonJct
  pc,                   \* position in the per-chromosome body
  minQual,              \* c.minQual
  targetLen,            \* hdr->target_len[refIndex]
  stream,               \* records delivered by sam_itr_next so far
  idx,                  \* records consumed by the coverage pass of create_tracks
  qualities,            \* TQualities qualities
  lastAlignedPos,       \* int32_t lastAlignedPos
  lastAlignedPosReads,  \* std::set<std::size_t> lastAlignedPosReads
  validPairs,           \* std::set<std::size_t> validPairs
  cov,                  \* TCoverage cov
  tl,                   \* TrackLine tl
  emitted,              \* history: the fragments the resolver let through
  consumed,             \* history: keys whose entry a second mate overwrote with 0
  clamped,              \* history: an increment was withheld by the saturation guard
  oob,                  \* history: cov was indexed at or beyond its size
  walked,               \* history: stream indices whose CIGAR the coverage pass walked
  resolution,           \* c.resolution
  red,                  \* double red
  origs,                \* uint32_t origs
  errs,                 \* std::vector<double> errs, after std::sort
  bpidx,                \* uint32_t bpidx
  thres,                \* double thres
  passes,               \* history: iterations of the reduction loop so far
  out,                  \* the rows written to dataOut for this chromosome
  hasIntervalFile,      \* c.hasIntervalFile
  intervalFile,         \* the lines of c.int_file that name this chromosome
  window,               \* c.window_size, c.window_offset, c.window_num
  itv,                  \* std::vector<ItvChr> itv
  refIndex,             \* int32_t refIndex
  file,                 \* the records of the alignment file, per chromosome
  normalize,            \* c.normalize
  totalPairs,           \* uint64_t totalPairs
  normFactor,           \* double normFactor
  gRegions,             \* gRegions[refIndex]: the annotated exons of the chromosome
  ejct,                 \* ejct[refIndex]: TExonJctCount
  intra                 \* the rows written to intrafile for this chromosome

\* The state of the reduction loop, of the interval summation, of the loop
\* over the chromosomes and of the exon-junction counter.
reduceVars == <<resolution, red, origs, errs, bpidx, thres, passes>>
sumVars == <<hasIntervalFile, intervalFile, window, itv>>
chromVars == <<refIndex, file, normalize, totalPairs, normFactor>>
jctVars == <<gRegions, ejct, intra>>

vars == <<mode, pc, minQual, targetLen, stream, idx, qualities, lastAlignedPos,
          lastAlignedPosReads, validPairs, cov, tl, emitted, consumed, clamped, oob,
          walked, reduceVars, out, sumVars, chromVars, jctVars>>

---------------------------------------------------------------------------
(* Bounds of the model *)

MaxRecords == 3      \* records of one chromosome (Spec)
MaxPairRecords == 4  \* records of one chromosome (SpecPair)
ChrLen == 3          \* chromosome length in bases (Spec, SpecPair)
TCountMax == 2       \* stands for std::numeric_limits<TCount>::max() (65535)
MaxRleLen == 6       \* chromosome length in bases (SpecRLE)
MaxRleDepth == 3     \* largest depth value of an input array (SpecRLE)
MaxRedLen == 5       \* chromosome length in bases (SpecReduce)
MaxRedDepth == 2     \* largest depth value of an input array (SpecReduce)
MaxPasses == 6       \* iterations of the reduction loop that are followed
MaxSumLen == 3       \* chromosome length in bases (SpecSum)
MaxItvLines == 2     \* lines of the interval file for one chromosome (SpecSum)
MaxItvWidth == 3     \* largest end - start of a line of the interval file
MaxWindowNum == 2    \* largest c.window_num (SpecSum)
NTargets == 2        \* chromosomes of the alignment file (SpecChrom)
UintRange == 16      \* stands for 2^32, the range of uint32_t (a length is below half of it)
MaxExons == 3        \* annotated exons of one chromosome (SpecJct)
MaxJctReads == 2     \* records of one chromosome (SpecJct)
JctLen == 5          \* chromosome length in bases (SpecJct)

Names == {"a", "b"}
Positions == {0, 1}
Quals == {25, 30}
MinQuals == {0, 20, 26}

Min(a, b) == IF a < b THEN a ELSE b

---------------------------------------------------------------------------
(* Values of type double, kept as exact fractions in lowest terms: the    *)
(* arithmetic of the scores and costs is modelled without rounding.       *)

RECURSIVE Gcd(_, _)
Gcd(a, b) == IF b = 0 THEN a ELSE Gcd(b, a % b)

Abs(a) == IF a < 0 THEN 0 - a ELSE a

Frac(n, d) ==
  LET g == Gcd(Abs(n), Abs(d))
      sg == IF d < 0 THEN 0 - 1 ELSE 1
  IN  [num |-> (sg * n) \div g, den |-> (sg * d) \div g]

Dbl(n) == [num |-> n, den |-> 1]

RAdd(x, y) == Frac(x.num * y.den + y.num * x.den, x.den * y.den)
RSub(x, y) == Frac(x.num * y.den - y.num * x.den, x.den * y.den)
RMul(x, y) == Frac(x.num * y.num, x.den * y.den)
RDiv(x, y) == Frac(x.num * y.den, x.den * y.num)
RLe(x, y) == x.num * y.den <= y.num * x.den
RLt(x, y) == x.num * y.den < y.num * x.den

\* (uint32_t) x for a double x that is not negative
Trunc(x) == x.num \div x.den

\* A value of c.resolution (float). absorbed marks a positive value so small
\* (1e-30, say) that the double red - c.resolution is red itself for every
\* ratio red the loop can hold (red >= 2^-32, half an ulp of red >= 2^-86).
Res(n, d) == [num |-> n, den |-> d, absorbed |-> FALSE]

TinyRes == [num |-> 0, den |-> 1, absorbed |-> TRUE]

---------------------------------------------------------------------------
(* Alignment records *)

Op(o, n) == [op |-> o, len |-> n]

BadFlags == {"SECONDARY", "QCFAIL", "DUP", "SUPPLEMENTARY", "UNMAP", "MUNMAP"}

Rec(n, p, m, q, f, mt, c) ==
  [name |-> n, pos |-> p, mpos |-> m, qual |-> q, flag |-> f, tid |-> 0,
   mtid |-> mt, cigar |-> c]

\* Records the filter is about: one per reason of rejection by flag or reference.
BadRecords ==
  { Rec("a", p, p, 30, f, 0, <<Op("M", 1)>>) :
      p \in Positions, f \in {{}} \cup {{"PAIRED", b} : b \in BadFlags} }
  \cup { Rec("a", p, p, 30, {"PAIRED"}, 1, <<Op("M", 1)>>) : p \in Positions }

CountCigars == { <<Op("M", 1)>>, <<Op("M", 4)>> }

CountRecords ==
  { Rec(n, p, m, q, {"PAIRED"}, 0, c) :
      n \in Names, p \in Positions, m \in Positions, q \in Quals, c \in CountCigars }
  \cup BadRecords

PairRecords ==
  { Rec(n, p, m, q, {"PAIRED"}, 0, <<Op("M", 1)>>) :
      n \in Names, p \in Positions, m \in Positions, q \in Quals }
  \cup { Rec("a", p, p, 30, {"PAIRED", "DUP"}, 0, <<Op("M", 1)>>) : p \in Positions }

---------------------------------------------------------------------------
(* Helpers of util.h *)

hash_string(s) == s

hash_pair(rec) == <<hash_string(rec.name), rec.tid, rec.pos, rec.mtid, rec.mpos>>

hash_pair_mate(rec) == <<hash_string(rec.name), rec.mtid, rec.mpos, rec.tid, rec.pos>>

RECURSIVE alignmentLength(_)
alignmentLength(cigar) ==
  IF cigar = <<>> THEN 0
  ELSE (IF Head(cigar).op \in {"M", "=", "X", "D", "N"} THEN Head(cigar).len ELSE 0)
       + alignmentLength(Tail(cigar))

halfAlignmentLength(rec) == alignmentLength(rec.cigar) \div 2

---------------------------------------------------------------------------
(* The pair resolver: the loop body shared by the three resolving passes *)

maxCoverage == TCountMax

EmptyMap == [k \in {} |-> 0]

Put(q, k, v) == [x \in (DOMAIN q) \cup {k} |-> IF x = k THEN v ELSE q[x]]

\* Faulty variant: the table is not cleared at the end of a chromosome.
ClearNothing(q) == q

\* qualities.clear()
Clear(q) == EmptyMap

\* Faulty variant: the supplementary flag left out of the mask.
FilteredButSupplementary(rec, mq) ==
  \/ rec.flag \cap (BadFlags \ {"SUPPLEMENTARY"}) # {}
  \/ rec.tid # rec.mtid
  \/ "PAIRED" \notin rec.flag
  \/ rec.qual < mq

Filtered(rec, mq) ==
  \/ rec.flag \cap BadFlags # {}
  \/ rec.tid # rec.mtid
  \/ "PAIRED" \notin rec.flag
  \/ rec.qual < mq

\* Faulty variant: no tie-break for mates at one position.
IsFirstNoTieBreak(rec, reads) == rec.pos < rec.mpos

IsFirst(rec, reads) ==
  \/ rec.pos < rec.mpos
  \/ (rec.pos = rec.mpos /\ hash_string(rec.name) \notin reads)

PairQuality(stored, q) == Min(stored, q)

Sentinel == 0

\* What one record does to the resolver: kind is "drop" (filtered), "first",
\* "absent" (mate discarded), "low" (low quality pair) or "emit".
Resolve(q, lap, reads, rec, mq) ==
  LET lap1   == IF rec.pos > lap THEN rec.pos ELSE lap
      reads1 == IF rec.pos > lap THEN {} ELSE reads
      hv     == hash_pair_mate(rec)
  IN  IF Filtered(rec, mq)
      THEN [kind |-> "drop", qualities |-> q, lastAlignedPos |-> lap,
            lastAlignedPosReads |-> reads, hv |-> hv, pairQuality |-> 0]
      ELSE IF IsFirst(rec, reads1)
      THEN [kind |-> "first", qualities |-> Put(q, hash_pair(rec), rec.qual),
            lastAlignedPos |-> lap1,
            lastAlignedPosReads |-> reads1 \cup {hash_string(rec.name)},
            hv |-> hash_pair(rec), pairQuality |-> 0]
      ELSE IF hv \notin DOMAIN q
      THEN [kind |-> "absent", qualities |-> q, lastAlignedPos |-> lap1,
            lastAlignedPosReads |-> reads1, hv |-> hv, pairQuality |-> 0]
      ELSE LET pq == PairQuality(q[hv], rec.qual)
           IN  [kind |-> IF pq < mq THEN "low" ELSE "emit",
                qualities |-> Put(q, hv, Sentinel), lastAlignedPos |-> lap1,
                lastAlignedPosReads |-> reads1, hv |-> hv, pairQuality |-> pq]

\* History kept beside the resolver's own state.
Emit(em, r, rec) ==
  IF r.kind = "emit"
  THEN Append(em, [hv |-> r.hv, pairQuality |-> r.pairQuality, rec |-> rec])
  ELSE em

Consume(cs, r) == IF r.kind \in {"low", "emit"} THEN cs \cup {r.hv} ELSE cs

---------------------------------------------------------------------------
(* bam_dna_counter: count the mid point of every valid pair *)

CountInc(c, midPoint, len) ==
  IF midPoint < len /\ c[midPoint] < maxCoverage - 1
  THEN [c EXCEPT ![midPoint] = @ + 1]
  ELSE c

MidPoint(rec) == rec.pos + halfAlignmentLength(rec)

\* The state the counting loop carries, and one iteration of it.
CountState(q, lap, reads, c, em) ==
  [qualities |-> q, lastAlignedPos |-> lap, lastAlignedPosReads |-> reads,
   cov |-> c, emitted |-> em]

CountStep(st, rec, mq, len) ==
  LET r == Resolve(st.qualities, st.lastAlignedPos, st.lastAlignedPosReads, rec, mq)
  IN  CountState(r.qualities, r.lastAlignedPos, r.lastAlignedPosReads,
                 IF r.kind = "emit" THEN CountInc(st.cov, MidPoint(rec), len) ELSE st.cov,
                 Emit(st.emitted, r, rec))

Sorted(rec) == IF stream = <<>> THEN TRUE ELSE rec.pos >= stream[Len(stream)].pos

CountRead(rec, maxN) ==
  /\ mode = "count" /\ pc = "count"
  /\ Len(stream) < maxN
  /\ Sorted(rec)
  /\ LET st == CountState(qualities, lastAlignedPos, lastAlignedPosReads, cov, emitted)
         nx == CountStep(st, rec, minQual, targetLen)
         r  == Resolve(qualities, lastAlignedPos, lastAlignedPosReads, rec, minQual)
     IN  /\ qualities' = nx.qualities
         /\ lastAlignedPos' = nx.lastAlignedPos
         /\ lastAlignedPosReads' = nx.lastAlignedPosReads
         /\ cov' = nx.cov
         /\ emitted' = nx.emitted
         /\ consumed' = Consume(consumed, r)
         /\ clamped' = (clamped \/ (r.kind = "emit" /\ MidPoint(rec) < targetLen
                                     /\ nx.cov = cov))
  /\ stream' = Append(stream, rec)
  /\ UNCHANGED <<mode, pc, minQual, targetLen, idx, validPairs, tl, oob>>
  /\ UNCHANGED <<walked, reduceVars, out, sumVars, chromVars, jctVars>>

\* End of the record loop: qualities.clear(), then the intervals are summed.
CountEnd ==
  /\ mode = "count" /\ pc = "count"
  /\ qualities' = Clear(qualities)
  /\ pc' = "intervals"
  /\ UNCHANGED <<mode, minQual, targetLen, stream, idx, lastAlignedPos,
                 lastAlignedPosReads, validPairs, cov, tl, emitted, consumed,
                 clamped, oob>>
  /\ UNCHANGED <<walked, reduceVars, out, sumVars, chromVars, jctVars>>

---------------------------------------------------------------------------
(* create_tracks: find the valid pairs, then walk the CIGAR of their records *)

TrackCigars ==
  { <<Op("M", 1)>>, <<Op("M", 2)>>, <<Op("=", 1), Op("X", 1)>>,
    <<Op("M", 1), Op("D", 1), Op("M", 1)>>, <<Op("M", 1), Op("N", 1), Op("M", 1)>>,
    <<Op("I", 1), Op("M", 1)>>, <<Op("S", 1), Op("M", 1)>>, <<Op("H", 1), Op("M", 1)>>,
    <<Op("M", 1), Op("P", 1), Op("M", 1)>> }

TrackRecords ==
  { Rec("a", p, m, 30, {"PAIRED"}, 0, c) :
      p \in Positions, m \in Positions, c \in TrackCigars }
  \cup { Rec("a", p, p, 30, {"PAIRED", "DUP"}, 0, <<Op("M", 1)>>) : p \in Positions }

TrackMinQuals == {0, 20}

PreRead(rec) ==
  /\ mode = "track" /\ pc = "prepass"
  /\ Len(stream) < MaxRecords
  /\ Sorted(rec)
  /\ LET r == Resolve(qualities, lastAlignedPos, lastAlignedPosReads, rec, minQual)
     IN  /\ qualities' = r.qualities
         /\ lastAlignedPos' = r.lastAlignedPos
         /\ lastAlignedPosReads' = r.lastAlignedPosReads
         /\ validPairs' = IF r.kind = "emit" THEN validPairs \cup {hash_pair_mate(rec)}
                          ELSE validPairs
         /\ emitted' = Emit(emitted, r, rec)
         /\ consumed' = Consume(consumed, r)
  /\ stream' = Append(stream, rec)
  /\ UNCHANGED <<mode, pc, minQual, targetLen, idx, cov, tl, clamped, oob>>
  /\ UNCHANGED <<walked, reduceVars, out, sumVars, chromVars, jctVars>>

\* End of the pre-pass: qualities.clear(); the coverage block is entered only
\* if (validPairs.size()), with a fresh lastAlignedPos and lastAlignedPosReads.
PreEnd ==
  /\ mode = "track" /\ pc = "prepass"
  /\ qualities' = Clear(qualities)
  /\ lastAlignedPos' = 0 /\ lastAlignedPosReads' = {}
  /\ pc' = IF validPairs # {} THEN "cover" ELSE "done"
  /\ UNCHANGED <<mode, minQual, targetLen, stream, idx, validPairs, cov, tl,
                 emitted, consumed, clamped, oob>>
  /\ UNCHANGED <<walked, reduceVars, out, sumVars, chromVars, jctVars>>

\* Faulty variant: the key of a mate behind its mate is not mirrored.
CoverKeyNotMirrored(rec, reads) == hash_pair(rec)

\* The key the coverage pass computes for a record (nothing is ever inserted
\* into its lastAlignedPosReads).
CoverKey(rec, reads) == IF IsFirst(rec, reads) THEN hash_pair(rec) ELSE hash_pair_mate(rec)

\* Faulty variant: the guard admits the saturation value, and the 16-bit counter wraps.
TrackIncWraps(c, rp) ==
  IF c[rp] <= maxCoverage THEN [c EXCEPT ![rp] = (@ + 1) % (maxCoverage + 1)] ELSE c

TrackInc(c, rp) == IF c[rp] < maxCoverage THEN [c EXCEPT ![rp] = @ + 1] ELSE c

WalkState(c, rp, o, cl) == [cov |-> c, rp |-> rp, oob |-> o, clamped |-> cl]

\* for (k = 0; k < oplen; ++k) { if (cov[rp] < maxCoverage) ++cov[rp]; ++rp; }
\* cov[rp] with rp beyond the vector is undefined: recorded in oob, the
\* array itself left as it is.
RECURSIVE MatchRun(_, _, _)
MatchRun(w, k, len) ==
  IF k = 0 THEN w
  ELSE IF w.rp >= len
       THEN MatchRun(WalkState(w.cov, w.rp + 1, TRUE, w.clamped), k - 1, len)
       ELSE MatchRun(WalkState(TrackInc(w.cov, w.rp), w.rp + 1, w.oob,
                               w.clamped \/ w.cov[w.rp] >= maxCoverage), k - 1, len)

\* Faulty variant: an insertion advances the reference pointer.
CigarOpInsertionAdvances(w, o, len) ==
  IF o.op \in {"M", "=", "X"} THEN MatchRun(w, o.len, len)
  ELSE IF o.op \in {"D", "N", "I"} THEN WalkState(w.cov, w.rp + o.len, w.oob, w.clamped)
  ELSE w

CigarOp(w, o, len) ==
  IF o.op \in {"M", "=", "X"} THEN MatchRun(w, o.len, len)
  ELSE IF o.op = "D" THEN WalkState(w.cov, w.rp + o.len, w.oob, w.clamped)
  ELSE IF o.op = "N" THEN WalkState(w.cov, w.rp + o.len, w.oob, w.clamped)
  ELSE w

RECURSIVE CigarWalk(_, _, _)
CigarWalk(w, cigar, len) ==
  IF cigar = <<>> THEN w
  ELSE CigarWalk(CigarOp(w, Head(cigar), len), Tail(cigar), len)

\* One iteration of the coverage loop on record rec.
CoverStep(c, lap, reads, vp, rec, mq, len) ==
  LET lap1   == IF rec.pos > lap THEN rec.pos ELSE lap
      reads1 == IF rec.pos > lap THEN {} ELSE reads
      w0     == WalkState(c, rec.pos, FALSE, FALSE)
  IN  IF Filtered(rec, mq)
      THEN [walk |-> w0, lastAlignedPos |-> lap, lastAlignedPosReads |-> reads,
            walked |-> FALSE]
      ELSE [walk |-> IF CoverKey(rec, reads1) \in vp THEN CigarWalk(w0, rec.cigar, len)
                     ELSE w0,
            lastAlignedPos |-> lap1, lastAlignedPosReads |-> reads1,
            walked |-> CoverKey(rec, reads1) \in vp]

CoverRead ==
  /\ mode = "track" /\ pc = "cover"
  /\ idx < Len(stream)
  /\ LET s == CoverStep(cov, lastAlignedPos, lastAlignedPosReads, validPairs,
                        stream[idx + 1], minQual, targetLen)
     IN  /\ cov' = s.walk.cov
         /\ lastAlignedPos' = s.lastAlignedPos
         /\ lastAlignedPosReads' = s.lastAlignedPosReads
         /\ oob' = (oob \/ s.walk.oob)
         /\ clamped' = (clamped \/ s.walk.clamped)
         /\ walked' = IF s.walked THEN walked \cup {idx + 1} ELSE walked
         \* an access outside the vector may also end the process
         /\ \E crash \in BOOLEAN :
              pc' = IF s.walk.oob /\ crash THEN "crashed" ELSE "cover"
  /\ idx' = idx + 1
  /\ UNCHANGED <<mode, minQual, targetLen, stream, qualities, validPairs, tl,
                 emitted, consumed>>
  /\ UNCHANGED <<reduceVars, out, sumVars, chromVars, jctVars>>

CoverEnd ==
  /\ mode = "track" /\ pc = "cover"
  /\ idx = Len(stream)
  /\ pc' = "rle"
  /\ UNCHANGED <<mode, minQual, targetLen, stream, idx, qualities, lastAlignedPos,
                 lastAlignedPosReads, validPairs, cov, tl, emitted, consumed,
                 clamped, oob>>
  /\ UNCHANGED <<walked, reduceVars, out, sumVars, chromVars, jctVars>>

---------------------------------------------------------------------------
(* create_tracks: the run-length encoding of the depth array *)

Track(s, e, sc) == [start |-> s, end |-> e, score |-> sc]

RECURSIVE RleLoop(_, _, _, _, _, _, _)
RleLoop(c, size, i, wb, we, wval, acc) ==
  IF i >= size THEN Append(acc, Track(wb, we + 1, RMul(normFactor, Dbl(wval))))
  ELSE IF c[i] = wval THEN RleLoop(c, size, i + 1, wb, we + 1, wval, acc)
  ELSE RleLoop(c, size, i + 1, i, i, c[i],
               Append(acc, Track(wb, we + 1, RMul(normFactor, Dbl(wval)))))

\* Faulty variant: the first run starts from 0 instead of cov[0].
TrackLineFromZero(c, size) == RleLoop(c, size, 1, 0, 0, 0, <<>>)

TrackLineOf(c, size) == RleLoop(c, size, 1, 0, 0, c[0], <<>>)

BuildTrackLine ==
  /\ mode = "track" /\ pc = "rle"
  /\ tl' = TrackLineOf(cov, targetLen)
  /\ pc' = "reduce"
  /\ UNCHANGED <<mode, minQual, targetLen, stream, idx, qualities, lastAlignedPos,
                 lastAlignedPosReads, validPairs, cov, emitted, consumed, clamped,
                 oob>>
  /\ UNCHANGED <<walked, reduceVars, out, sumVars, chromVars, jctVars>>

---------------------------------------------------------------------------
(* create_tracks: the reduction loop and the output of the segments *)

\* Faulty variant: a resolution of 0 enters the loop.
ResolutionFromZero(r) == IF r.absorbed THEN TRUE ELSE r.num >= 0 /\ r.num < r.den

\* (c.resolution > 0) && (c.resolution < 1)
ReduceEnabled(r) == IF r.absorbed THEN TRUE ELSE r.num > 0 /\ r.num < r.den

\* red > c.resolution
RedAbove(rd, r) == IF r.absorbed THEN TRUE ELSE RLt(Frac(r.num, r.den), rd)

\* red - c.resolution
RedMinus(rd, r) == IF r.absorbed THEN rd ELSE RSub(rd, Frac(r.num, r.den))

Width(t) == t.end - t.start

\* Faulty variant: the plain mean of the two scores.
NwavgUnweighted(a, b) == RDiv(RAdd(a.score, b.score), Dbl(2))

\* (w1 * idx->score + w2 * idxNext->score) / (w1 + w2)
Nwavg(a, b) ==
  RDiv(RAdd(RMul(Dbl(Width(a)), a.score), RMul(Dbl(Width(b)), b.score)),
       Dbl(Width(a) + Width(b)))

Nerr(a, b) ==
  LET nwavg == Nwavg(a, b)
  IN  RAdd(RMul(Dbl(Width(a)), RMul(RSub(a.score, nwavg), RSub(a.score, nwavg))),
           RMul(Dbl(Width(b)), RMul(RSub(b.score, nwavg), RSub(b.score, nwavg))))

\* The costs of all adjacent pairs, in list order.
Errs(t) == [k \in 1..(Len(t) - 1) |-> Nerr(t[k], t[k + 1])]

RECURSIVE InsertSorted(_, _)
InsertSorted(x, s) ==
  IF s = <<>> THEN <<x>>
  ELSE IF RLe(x, Head(s)) THEN <<x>> \o s
  ELSE <<Head(s)>> \o InsertSorted(x, Tail(s))

\* std::sort(errs.begin(), errs.end())
RECURSIVE SortErrs(_)
SortErrs(s) == IF s = <<>> THEN <<>> ELSE InsertSorted(Head(s), SortErrs(Tail(s)))

\* Faulty variant: the rank is not stepped back by one.
BpidxNotSteppedBack(rd, r, size) == Trunc(RMul(RedMinus(rd, r), Dbl(size)))

\* uint32_t bpidx = (red - c.resolution) * tl.size(); if (bpidx > 0) bpidx = bpidx - 1;
Bpidx(rd, r, size) ==
  LET b == Trunc(RMul(RedMinus(rd, r), Dbl(size)))
  IN  IF b > 0 THEN b - 1 ELSE b

\* errs[bpidx] with bpidx beyond the vector is undefined: any double, here
\* one below every cost, one of the costs, or one above every cost.
Garbage(e) ==
  {Dbl(0 - 1)} \cup {e[k] : k \in 1..Len(e)} \cup {RAdd(e[Len(e)], Dbl(1))}

\* Faulty variant: the merged segment keeps the start of the right segment.
MergedFromRight(a, b) == Track(b.start, b.end, Nwavg(a, b))

\* tl.erase(idx++); idx->start = oldst; idx->score = nwavg;
Merged(a, b) == Track(a.start, b.end, Nwavg(a, b))

\* The second walk of a pass: cur is *idx, rest starts at *idxNext, acc holds
\* the segments before idx.
RECURSIVE MergeWalk(_, _, _, _)
MergeWalk(cur, rest, acc, th) ==
  IF rest = <<>> THEN Append(acc, cur)
  ELSE IF RLe(Nerr(cur, Head(rest)), th)
       THEN MergeWalk(Merged(cur, Head(rest)), Tail(rest), acc, th)
       ELSE MergeWalk(Head(rest), Tail(rest), Append(acc, cur), th)

\* red and origs as the loop test reads them: set on entering the block.
RedNow == IF pc = "reduce" THEN Dbl(1) ELSE red

OrigsNow == IF pc = "reduce" THEN Len(tl) ELSE origs

LoopCondition == Len(tl) > 1 /\ RedAbove(RedNow, resolution)

\* One iteration of while ((tl.size() > 1) && (red > c.resolution)).
ReducePass ==
  /\ mode = "track" /\ pc \in {"reduce", "reducing"}
  /\ ReduceEnabled(resolution) /\ LoopCondition
  /\ passes < MaxPasses
  /\ LET e == SortErrs(Errs(tl))
         b == Bpidx(RedNow, resolution, Len(tl))
     IN  /\ errs' = e
         /\ bpidx' = b
         /\ \E th \in (IF b < Len(e) THEN {e[b + 1]} ELSE Garbage(e)) :
              LET n == MergeWalk(Head(tl), Tail(tl), <<>>, th)
              IN  /\ thres' = th
                  /\ tl' = n
                  /\ red' = Frac(Len(n), OrigsNow)
         \* an access outside the vector may also end the process
         /\ \E crash \in BOOLEAN :
              pc' = IF b >= Len(e) /\ crash THEN "crashed" ELSE "reducing"
  /\ origs' = OrigsNow
  /\ passes' = passes + 1
  /\ UNCHANGED <<mode, minQual, targetLen, stream, idx, qualities, lastAlignedPos,
                 lastAlignedPosReads, validPairs, cov, emitted, consumed, clamped,
                 oob, walked, resolution, out, sumVars, chromVars, jctVars>>

\* The rows written to dataOut: both formats write start, end and score of
\* every segment, in list order.
WriteTracks ==
  /\ mode = "track" /\ pc \in {"reduce", "reducing"}
  /\ ~(ReduceEnabled(resolution) /\ LoopCondition)
  /\ out' = [k \in 1..Len(tl) |->
              [chr |-> refIndex, start |-> tl[k].start, end |-> tl[k].end,
               score |-> tl[k].score]]
  /\ pc' = "done"
  /\ UNCHANGED <<mode, minQual, targetLen, stream, idx, qualities, lastAlignedPos,
                 lastAlignedPosReads, validPairs, cov, tl, emitted, consumed,
                 clamped, oob, walked, reduceVars, sumVars, chromVars, jctVars>>

---------------------------------------------------------------------------
(* bam_dna_counter: the reporting intervals and their sums *)

\* ItvChr without its id, which no computation reads.
ItvChr(s, e) == [start |-> s, end |-> e]

\* The lines of the interval file that name this chromosome, in file order:
\* false is returned at the first line with start < 0, end < 0 or start >= end.
RECURSIVE FileIntervals(_, _)
FileIntervals(lines, intvec) ==
  IF lines = <<>> THEN [ok |-> TRUE, intvec |-> intvec]
  ELSE IF Head(lines).start < 0 THEN [ok |-> FALSE, intvec |-> intvec]
  ELSE IF Head(lines).end < 0 THEN [ok |-> FALSE, intvec |-> intvec]
  ELSE IF Head(lines).start >= Head(lines).end THEN [ok |-> FALSE, intvec |-> intvec]
  ELSE FileIntervals(Tail(lines),
                     Append(intvec, ItvChr(Head(lines).start, Head(lines).end)))

WSize(w, len) == IF w.num > 0 THEN (len \div w.num) + 1 ELSE w.size

WOffset(w, len) == IF w.num > 0 THEN WSize(w, len) ELSE w.offset

\* Faulty variant: the end of the window is not cut at the chromosome length.
WindowLenUncut(pos, wSize, len) == (pos + wSize) % UintRange

\* uint32_t window_len = pos+wSize; if (window_len > target_len) window_len = target_len;
WindowLen(pos, wSize, len) ==
  LET window_len == (pos + wSize) % UintRange
  IN  IF window_len > len THEN len ELSE window_len

\* while (pos < target_len) { ...; pos += wOffset; } for wOffset > 0
RECURSIVE WindowIntervals(_, _, _, _, _)
WindowIntervals(pos, wSize, wOffset, len, intvec) ==
  IF pos >= len THEN intvec
  ELSE WindowIntervals((pos + wOffset) % UintRange, wSize, wOffset, len,
                       Append(intvec, ItvChr(pos, WindowLen(pos, wSize, len))))

RECURSIVE InsertByStart(_, _)
InsertByStart(x, s) ==
  IF s = <<>> THEN <<x>>
  ELSE IF x.start < Head(s).start THEN <<x>> \o s
  ELSE <<Head(s)>> \o InsertByStart(x, Tail(s))

\* std::sort(itv.begin(), itv.end(), SortIntervalStart<ItvChr>()): intervals of
\* equal start are left in the order of the file.
RECURSIVE SortByStart(_)
SortByStart(s) ==
  IF s = <<>> THEN <<>>
  ELSE InsertByStart(s[Len(s)], SortByStart(SubSeq(s, 1, Len(s) - 1)))

\* createIntervals and the sort. With a window offset of 0 the window loop
\* never ends; a rejected line of the interval file ends bam_dna_counter.
CreateIntervals ==
  /\ mode = "count" /\ pc = "intervals"
  /\ IF hasIntervalFile
     THEN LET r == FileIntervals(intervalFile, <<>>)
          IN  IF r.ok THEN itv' = SortByStart(r.intvec) /\ pc' = "sum"
              ELSE itv' = itv /\ pc' = "failed"
     ELSE IF WOffset(window, targetLen) = 0
          THEN itv' = itv /\ pc' = "hang"
          ELSE /\ itv' = SortByStart(WindowIntervals(0, WSize(window, targetLen),
                                                     WOffset(window, targetLen),
                                                     targetLen, <<>>))
               /\ pc' = "sum"
  /\ UNCHANGED <<mode, minQual, targetLen, stream, idx, qualities, lastAlignedPos,
                 lastAlignedPosReads, validPairs, cov, tl, emitted, consumed,
                 clamped, oob, walked, reduceVars, out, hasIntervalFile,
                 intervalFile, window, chromVars, jctVars>>

\* for (k = itv[i].start; k < itv[i].end; ++k) covsum += cov[k]; an index at
\* or beyond the size of cov is undefined: recorded in oob, nothing added here.
RECURSIVE CovSum(_, _, _, _, _)
CovSum(c, len, k, end, acc) ==
  IF k >= end THEN acc
  ELSE IF k >= len THEN CovSum(c, len, k + 1, end, [covsum |-> acc.covsum, oob |-> TRUE])
  ELSE CovSum(c, len, k + 1, end, [covsum |-> acc.covsum + c[k], oob |-> acc.oob])

\* One iteration of the loop over itv: the row of interval i. What the reads
\* outside cov add to the sum is arbitrary, and they may end the process.
SumInterval ==
  /\ mode = "count" /\ pc = "sum"
  /\ Len(out) < Len(itv)
  /\ LET i == Len(out) + 1
         r == CovSum(cov, targetLen, itv[i].start, itv[i].end,
                     [covsum |-> 0, oob |-> FALSE])
     IN  /\ \E g \in (IF r.oob THEN {0, 1} ELSE {0}) :
              out' = Append(out, [chr |-> refIndex, start |-> itv[i].start,
                                  end |-> itv[i].end, covsum |-> r.covsum + g])
         /\ oob' = (oob \/ r.oob)
         /\ \E crash \in BOOLEAN : pc' = IF r.oob /\ crash THEN "crashed" ELSE "sum"
  /\ UNCHANGED <<mode, minQual, targetLen, stream, idx, qualities, lastAlignedPos,
                 lastAlignedPosReads, validPairs, cov, tl, emitted, consumed,
                 clamped, walked, reduceVars, sumVars, chromVars, jctVars>>

SumEnd ==
  /\ mode = "count" /\ pc = "sum"
  /\ Len(out) = Len(itv)
  /\ pc' = "done"
  /\ UNCHANGED <<mode, minQual, targetLen, stream, idx, qualities, lastAlignedPos,
                 lastAlignedPosReads, validPairs, cov, tl, emitted, consumed,
                 clamped, oob, walked, reduceVars, out, sumVars, chromVars, jctVars>>

---------------------------------------------------------------------------
(* The loops over the chromosomes, and the normalization pass of create_tracks *)

\* The records of chromosome t are read with tid = t.
OnChromosome(rec, t) == [rec EXCEPT !.tid = t, !.mtid = IF rec.mtid = rec.tid THEN t ELSE t + 1]

ChromRecords(t) ==
  { OnChromosome(Rec("a", p, m, 30, {"PAIRED"}, 0, <<Op("M", 1)>>), t) :
      p \in Positions, m \in Positions }
  \cup { OnChromosome(Rec("a", 0, 0, 30, {"PAIRED", "DUP"}, 0, <<Op("M", 1)>>), t) }

\* The match, equal and mismatch bases of a CIGAR (tracks.h:115-120).
RECURSIVE MatchedBases(_)
MatchedBases(cigar) ==
  IF cigar = <<>> THEN 0
  ELSE (IF Head(cigar).op \in {"M", "=", "X"} THEN Head(cigar).len ELSE 0)
       + MatchedBases(Tail(cigar))

\* One record of the normalization pass.
NormRead(rec) ==
  /\ mode = "track" /\ pc = "normalize"
  /\ Len(stream) < MaxRecords
  /\ Sorted(rec)
  /\ LET r == Resolve(qualities, lastAlignedPos, lastAlignedPosReads, rec, minQual)
     IN  /\ qualities' = r.qualities
         /\ lastAlignedPos' = r.lastAlignedPos
         /\ lastAlignedPosReads' = r.lastAlignedPosReads
         /\ totalPairs' = IF r.kind = "emit" THEN totalPairs + MatchedBases(rec.cigar)
                          ELSE totalPairs
  /\ stream' = Append(stream, rec)
  /\ UNCHANGED <<mode, pc, minQual, targetLen, idx, validPairs, cov, tl, emitted,
                 consumed, clamped, oob, walked, reduceVars, out, sumVars, refIndex,
                 file, normalize, normFactor>>
  /\ UNCHANGED jctVars

\* normFactor = ((double) c.normalize / (double) totalPairs) * 100 * 2; a
\* division by 0 gives infinity, kept as 1/0.
NormFactorOf(n, total) == Frac(n * 100 * 2, total)

\* End of one chromosome of the normalization pass: qualities.clear(); the
\* records read are those the later passes read again. After the last
\* chromosome normFactor is set and the loop of the passes starts.
NormEnd ==
  /\ mode = "track" /\ pc = "normalize"
  /\ qualities' = Clear(qualities)
  /\ file' = Append(file, stream)
  /\ stream' = <<>>
  /\ lastAlignedPos' = 0 /\ lastAlignedPosReads' = {}
  /\ IF refIndex + 1 < NTargets
     THEN refIndex' = refIndex + 1 /\ pc' = pc /\ normFactor' = normFactor
     ELSE refIndex' = 0 /\ pc' = "prepass"
          /\ normFactor' = NormFactorOf(normalize, totalPairs)
  /\ UNCHANGED <<mode, minQual, targetLen, idx, validPairs, cov, tl, emitted,
                 consumed, clamped, oob, walked, reduceVars, out, sumVars,
                 normalize, totalPairs>>
  /\ UNCHANGED jctVars

\* The record the pre-pass reads next is the one the normalization pass read
\* at that place of the file.
Replays(rec) ==
  IF normalize = 0 THEN TRUE
  ELSE /\ Len(stream) < Len(file[refIndex + 1])
       /\ rec = file[refIndex + 1][Len(stream) + 1]

FileRead == IF normalize = 0 THEN TRUE ELSE stream = file[refIndex + 1]

\* ++refIndex: the locals of the loop body are built anew; qualities,
\* declared before the loop, is left as it is.
NextChromosome ==
  /\ pc = "done"
  /\ refIndex' = refIndex + 1
  /\ pc' = IF refIndex + 1 >= NTargets THEN "end"
           ELSE IF mode = "count" THEN "count" ELSE "prepass"
  /\ stream' = <<>> /\ idx' = 0
  /\ lastAlignedPos' = 0 /\ lastAlignedPosReads' = {}
  /\ validPairs' = {}
  /\ cov' = [i \in 0..(targetLen - 1) |-> 0]
  /\ tl' = <<>> /\ itv' = <<>> /\ out' = <<>>
  /\ emitted' = <<>> /\ consumed' = {} /\ walked' = {}
  /\ red' = Dbl(1) /\ origs' = 0 /\ errs' = <<>> /\ bpidx' = 0 /\ thres' = Dbl(0)
  /\ passes' = 0
  /\ UNCHANGED <<mode, minQual, targetLen, qualities, clamped, oob, resolution,
                 hasIntervalFile, intervalFile, window, file, normalize, totalPairs,
                 normFactor>>
  /\ UNCHANGED jctVars

\* if (!c.validChr[refIndex]) continue; if (nodata) continue;
SkipChromosome ==
  /\ mode = "count" /\ pc = "count" /\ stream = <<>>
  /\ refIndex' = refIndex + 1
  /\ pc' = IF refIndex + 1 >= NTargets THEN "end" ELSE "count"
  /\ UNCHANGED <<mode, minQual, targetLen, stream, idx, qualities, lastAlignedPos,
                 lastAlignedPosReads, validPairs, cov, tl, emitted, consumed,
                 clamped, oob, walked, reduceVars, out, sumVars, file, normalize,
                 totalPairs, normFactor>>
  /\ UNCHANGED jctVars

---------------------------------------------------------------------------
(* countExonJct and the intra-gene rows of countJunctionRun                *)
(* (src/src/count_junction.h), one chromosome                              *)

\* An annotated exon: the fields of IntervalLabelId the counter reads.
IntervalLabelId(s, e, l, i) == [start |-> s, end |-> e, lid |-> l, eid |-> i]

\* rec->core.flag & (BAM_FQCFAIL | BAM_FDUP | BAM_FUNMAP), rec->core.qual < c.minQual
JctFiltered(rec, mq) ==
  \/ rec.flag \cap {"QCFAIL", "DUP", "UNMAP"} # {}
  \/ rec.qual < mq

RECURSIVE MaxExonLength(_)
MaxExonLength(regs) ==
  IF regs = <<>> THEN 0
  ELSE LET rest == MaxExonLength(Tail(regs))
           w == Head(regs).end - Head(regs).start
       IN  IF w > rest THEN w ELSE rest

\* The positions flagged in featureBitMap.
FeatureBitMap(regs) ==
  {regs[k].start : k \in 1..Len(regs)} \cup {regs[k].end : k \in 1..Len(regs)}

\* std::lower_bound by start: the first exon whose start is not below key,
\* counted from 1; Len(regs) + 1 stands for end().
LowerBound(regs, key) ==
  LET hits == { k \in 1..Len(regs) : regs[k].start >= key }
  IN  IF hits = {} THEN Len(regs) + 1
      ELSE CHOOSE k \in hits : \A h \in hits : k <= h

\* ++itEjct->second, or insert(key, 1)
Increment(m, k) == Put(m, k, IF k \in DOMAIN m THEN m[k] + 1 ELSE 1)

\* for(; vItNext != end; ++vItNext): the junction partners of exon a.
RECURSIVE PartnerLoop(_, _, _, _, _)
PartnerLoop(regs, a, j, gpEnd, m) ==
  IF j > Len(regs) THEN m
  ELSE IF regs[j].end < gpEnd THEN PartnerLoop(regs, a, j + 1, gpEnd, m)
  ELSE IF regs[j].start > gpEnd THEN m
  ELSE PartnerLoop(regs, a, j + 1, gpEnd,
                   IF regs[j].start = gpEnd /\ a.eid < regs[j].eid
                   THEN Increment(m, <<a.eid, regs[j].eid>>)
                   ELSE m)

\* for(; vIt != end; ++vIt): the exons that end at gpStart.
RECURSIVE ExonLoop(_, _, _, _, _)
ExonLoop(regs, i, gpStart, gpEnd, m) ==
  IF i > Len(regs) THEN m
  ELSE IF regs[i].end < gpStart THEN ExonLoop(regs, i + 1, gpStart, gpEnd, m)
  ELSE IF regs[i].start > gpStart THEN m
  ELSE ExonLoop(regs, i + 1, gpStart, gpEnd,
                IF regs[i].end = gpStart
                THEN PartnerLoop(regs, regs[i], i + 1, gpEnd, m)
                ELSE m)

\* The reference-skip branch of the CIGAR walk.
RefSkip(regs, gpStart, gpEnd, m) ==
  IF gpStart \in FeatureBitMap(regs) /\ gpEnd \in FeatureBitMap(regs)
  THEN LET key == gpStart - MaxExonLength(regs)
       IN  ExonLoop(regs, LowerBound(regs, IF key > 0 THEN key ELSE 0), gpStart,
                    gpEnd, m)
  ELSE m

\* The CIGAR walk of one record; failed is the return 1 of an operation the
\* walk does not know.
RECURSIVE JctWalk(_, _, _, _)
JctWalk(cigar, gp, regs, m) ==
  IF cigar = <<>> THEN [ejct |-> m, failed |-> FALSE]
  ELSE LET o == Head(cigar)
       IN  IF o.op \in {"S", "I", "H"} THEN JctWalk(Tail(cigar), gp, regs, m)
           ELSE IF o.op \in {"D", "M"} THEN JctWalk(Tail(cigar), gp + o.len, regs, m)
           ELSE IF o.op = "N"
           THEN JctWalk(Tail(cigar), gp + o.len, regs,
                        RefSkip(regs, gp, gp + o.len, m))
           ELSE [ejct |-> m, failed |-> TRUE]

\* if (gRegions[refIndex].empty()) continue; std::sort by start. Exons of
\* equal start never pair with each other, so their order is left as it is.
SortRegions ==
  /\ mode = "junction" /\ pc = "sort"
  /\ gRegions' = SortByStart(gRegions)
  /\ pc' = IF gRegions = <<>> THEN "output" ELSE "junction"
  /\ UNCHANGED <<mode, minQual, targetLen, stream, idx, qualities, lastAlignedPos,
                 lastAlignedPosReads, validPairs, cov, tl, emitted, consumed,
                 clamped, oob, walked, reduceVars, out, sumVars, chromVars, ejct,
                 intra>>

\* One record of the counting loop.
JctRead(rec) ==
  /\ mode = "junction" /\ pc = "junction"
  /\ Len(stream) < MaxJctReads
  /\ Sorted(rec)
  /\ stream' = Append(stream, rec)
  /\ IF JctFiltered(rec, minQual)
     THEN ejct' = ejct /\ pc' = pc
     ELSE LET w == JctWalk(rec.cigar, rec.pos, gRegions, ejct)
          IN  /\ ejct' = w.ejct
              /\ pc' = IF w.failed THEN "failed" ELSE pc
  /\ UNCHANGED <<mode, minQual, targetLen, idx, qualities, lastAlignedPos,
                 lastAlignedPosReads, validPairs, cov, tl, emitted, consumed,
                 clamped, oob, walked, reduceVars, out, sumVars, chromVars, gRegions,
                 intra>>

\* sam_itr_next is exhausted.
JctEnd ==
  /\ mode = "junction" /\ pc = "junction"
  /\ pc' = "output"
  /\ UNCHANGED <<mode, minQual, targetLen, stream, idx, qualities, lastAlignedPos,
                 lastAlignedPosReads, validPairs, cov, tl, emitted, consumed,
                 clamped, oob, walked, reduceVars, out, sumVars, chromVars, jctVars>>

\* The count written for the exons itR and itRNext.
JctCount(m, a, b) ==
  LET leid == IF a.eid > b.eid THEN b.eid ELSE a.eid
      heid == IF a.eid > b.eid THEN a.eid ELSE b.eid
  IN  IF <<leid, heid>> \in DOMAIN m THEN m[<<leid, heid>>] ELSE 0

\* The two loops over itR and itRNext.
RECURSIVE IntraRows(_, _, _, _, _)
IntraRows(regs, i, j, m, acc) ==
  IF i > Len(regs) THEN acc
  ELSE IF j > Len(regs) THEN IntraRows(regs, i + 1, i + 2, m, acc)
  ELSE IntraRows(regs, i, j + 1, m,
                 IF regs[i].lid = regs[j].lid /\ regs[i].end < regs[j].start
                 THEN Append(acc, [exonA |-> regs[i], exonB |-> regs[j],
                                   count |-> JctCount(m, regs[i], regs[j])])
                 ELSE acc)

WriteJunctions ==
  /\ mode = "junction" /\ pc = "output"
  /\ intra' = IntraRows(gRegions, 1, 2, ejct, <<>>)
  /\ pc' = "done"
  /\ UNCHANGED <<mode, minQual, targetLen, stream, idx, qualities, lastAlignedPos,
                 lastAlignedPosReads, validPairs, cov, tl, emitted, consumed,
                 clamped, oob, walked, reduceVars, out, sumVars, chromVars, gRegions,
                 ejct>>

---------------------------------------------------------------------------
(* The record loops run over a whole stream *)

RECURSIVE CountLoop(_, _, _, _)
CountLoop(st, s, mq, len) ==
  IF s = <<>> THEN st ELSE CountLoop(CountStep(st, Head(s), mq, len), Tail(s), mq, len)

CountRun(s, mq, len) == CountLoop(CountState(EmptyMap, 0, {}, [i \in 0..(len - 1) |-> 0], <<>>),
                                  s, mq, len)

PreState(q, lap, reads, vp) ==
  [qualities |-> q, lastAlignedPos |-> lap, lastAlignedPosReads |-> reads,
   validPairs |-> vp]

RECURSIVE PreLoop(_, _, _)
PreLoop(st, s, mq) ==
  IF s = <<>> THEN st
  ELSE LET r == Resolve(st.qualities, st.lastAlignedPos, st.lastAlignedPosReads,
                        Head(s), mq)
       IN  PreLoop(PreState(r.qualities, r.lastAlignedPos, r.lastAlignedPosReads,
                            IF r.kind = "emit"
                            THEN st.validPairs \cup {hash_pair_mate(Head(s))}
                            ELSE st.validPairs),
                   Tail(s), mq)

PreRun(s, mq) == PreLoop(PreState(EmptyMap, 0, {}, {}), s, mq).validPairs

CoverState(c, lap, reads, o) ==
  [cov |-> c, lastAlignedPos |-> lap, lastAlignedPosReads |-> reads, oob |-> o]

RECURSIVE CoverLoop(_, _, _, _, _)
CoverLoop(st, s, vp, mq, len) ==
  IF s = <<>> THEN st
  ELSE LET n == CoverStep(st.cov, st.lastAlignedPos, st.lastAlignedPosReads, vp,
                          Head(s), mq, len)
       IN  CoverLoop(CoverState(n.walk.cov, n.lastAlignedPos, n.lastAlignedPosReads,
                                st.oob \/ n.walk.oob),
                     Tail(s), vp, mq, len)

CoverRun(s, mq, len) ==
  CoverLoop(CoverState([i \in 0..(len - 1) |-> 0], 0, {}, FALSE), s, PreRun(s, mq),
            mq, len)

---------------------------------------------------------------------------
(* Initial states and specifications *)

ZeroCov(len) == [i \in 0..(len - 1) |-> 0]

InitCommon ==
  /\ stream = <<>> /\ idx = 0
  /\ qualities = EmptyMap
  /\ lastAlignedPos = 0 /\ lastAlignedPosReads = {}
  /\ validPairs = {}
  /\ tl = <<>>
  /\ emitted = <<>> /\ consumed = {}
  /\ clamped = FALSE /\ oob = FALSE
  /\ walked = {}
  /\ red = Dbl(1) /\ origs = 0 /\ errs = <<>> /\ bpidx = 0 /\ thres = Dbl(0)
  /\ passes = 0
  /\ out = <<>>
  /\ itv = <<>>
  /\ refIndex = 0
  /\ totalPairs = 0 /\ normFactor = Dbl(1)
  /\ ejct = EmptyMap /\ intra = <<>>

\* The configuration and the input of the passes a specification leaves out.
NoReduction == resolution = Res(1, 1)

NoIntervals ==
  /\ hasIntervalFile = FALSE /\ intervalFile = <<>>
  /\ window = [size |-> 1, offset |-> 1, num |-> 0]

OneChromosome == normalize = 0 /\ file = <<>>

NoExons == gRegions = <<>>

InitPair ==
  /\ mode = "count" /\ pc = "count"
  /\ minQual \in MinQuals
  /\ targetLen = ChrLen
  /\ cov = ZeroCov(ChrLen)
  /\ InitCommon /\ NoReduction /\ NoIntervals /\ OneChromosome /\ NoExons

NextPair ==
  \/ \E rec \in PairRecords : CountRead(rec, MaxPairRecords)
  \/ CountEnd

SpecPair == InitPair /\ [][NextPair]_vars

Init ==
  /\ mode \in {"count", "track"}
  /\ pc = (IF mode = "count" THEN "count" ELSE "prepass")
  /\ minQual \in (IF mode = "count" THEN MinQuals ELSE TrackMinQuals)
  /\ targetLen = ChrLen
  /\ cov = ZeroCov(ChrLen)
  /\ InitCommon /\ NoReduction /\ NoIntervals /\ OneChromosome /\ NoExons

Next ==
  \/ \E rec \in CountRecords : CountRead(rec, MaxRecords)
  \/ CountEnd
  \/ \E rec \in TrackRecords : PreRead(rec)
  \/ PreEnd
  \/ CoverRead
  \/ CoverEnd
  \/ BuildTrackLine

Spec == Init /\ [][Next]_vars

\* The run-length encoder on its own, on every depth array of the bounds.
InitRLE ==
  /\ mode = "track" /\ pc = "rle"
  /\ minQual = 0
  /\ targetLen \in 1..MaxRleLen
  /\ cov \in [0..(targetLen - 1) -> 0..MaxRleDepth]
  /\ InitCommon /\ NoReduction /\ NoIntervals /\ OneChromosome /\ NoExons

NextRLE == BuildTrackLine

SpecRLE == InitRLE /\ [][NextRLE]_vars

\* The encoder and the reduction loop on every depth array of the bounds.
Resolutions ==
  {Res(0 - 1, 1), Res(0, 1), TinyRes, Res(1, 4), Res(1, 2), Res(3, 4), Res(1, 1),
   Res(2, 1)}

InitReduce ==
  /\ mode = "track" /\ pc = "rle"
  /\ minQual = 0
  /\ targetLen \in 1..MaxRedLen
  /\ cov \in [0..(targetLen - 1) -> 0..MaxRedDepth]
  /\ resolution \in Resolutions
  /\ InitCommon /\ NoIntervals /\ OneChromosome /\ NoExons

NextReduce ==
  \/ BuildTrackLine
  \/ ReducePass
  \/ WriteTracks

SpecReduce == InitReduce /\ [][NextReduce]_vars

\* create_tracks on one chromosome, from the records to the rows.
TrackResolutions == {Res(1, 2), Res(1, 1)}

InitTrack ==
  /\ mode = "track" /\ pc = "prepass"
  /\ minQual \in TrackMinQuals
  /\ targetLen = ChrLen
  /\ cov = ZeroCov(ChrLen)
  /\ resolution \in TrackResolutions
  /\ InitCommon /\ NoIntervals /\ OneChromosome /\ NoExons

NextTrack ==
  \/ \E rec \in TrackRecords : PreRead(rec)
  \/ PreEnd
  \/ CoverRead
  \/ CoverEnd
  \/ BuildTrackLine
  \/ ReducePass
  \/ WriteTracks

SpecTrack == InitTrack /\ [][NextTrack]_vars

\* The interval summation on its own: the depth arrays of the bounds and the
\* array [1,1,5,5,5,1], an interval file or window parameters.
ScenarioCov == [b \in 0..5 |-> IF b \in {2, 3, 4} THEN 5 ELSE 1]

SumArrays ==
  UNION { [0..(len - 1) -> {1, 5}] : len \in 1..MaxSumLen } \cup {ScenarioCov}

ItvLines(len) ==
  { ItvChr(st, st + w) : st \in (0 - 1)..len, w \in (0 - 1)..MaxItvWidth }

ItvFiles(len) ==
  UNION { [1..n -> ItvLines(len)] : n \in 0..MaxItvLines }

Windows ==
  [size : 0..(UintRange - 1), offset : 0..(UintRange - 1), num : 0..MaxWindowNum]

InitSum ==
  /\ mode = "count" /\ pc = "intervals"
  /\ minQual = 0
  /\ cov \in SumArrays
  /\ targetLen = Cardinality(DOMAIN cov)
  /\ hasIntervalFile \in BOOLEAN
  /\ IF hasIntervalFile
     THEN intervalFile \in ItvFiles(targetLen)
          /\ window = [size |-> 1, offset |-> 1, num |-> 0]
     ELSE intervalFile = <<>> /\ window \in Windows
  /\ InitCommon /\ NoReduction /\ OneChromosome /\ NoExons

NextSum ==
  \/ CreateIntervals
  \/ SumInterval
  \/ SumEnd

SpecSum == InitSum /\ [][NextSum]_vars

\* Both tools on all chromosomes of the file, pass after pass.
InitChrom ==
  /\ mode \in {"count", "track"}
  /\ normalize \in (IF mode = "track" THEN {0, 1} ELSE {0})
  /\ pc = (IF mode = "count" THEN "count"
           ELSE IF normalize > 0 THEN "normalize" ELSE "prepass")
  /\ minQual \in TrackMinQuals
  /\ targetLen = ChrLen
  /\ cov = ZeroCov(ChrLen)
  /\ resolution = Res(1, 2)
  /\ hasIntervalFile = FALSE /\ intervalFile = <<>>
  /\ window = [size |-> 2, offset |-> 2, num |-> 0]
  /\ file = <<>>
  /\ InitCommon /\ NoExons

NextChrom ==
  \/ \E rec \in ChromRecords(refIndex) : NormRead(rec)
  \/ NormEnd
  \/ \E rec \in ChromRecords(refIndex) : PreRead(rec) /\ Replays(rec)
  \/ PreEnd /\ FileRead
  \/ CoverRead
  \/ CoverEnd
  \/ BuildTrackLine
  \/ ReducePass
  \/ WriteTracks
  \/ \E rec \in ChromRecords(refIndex) : CountRead(rec, MaxRecords)
  \/ CountEnd
  \/ CreateIntervals
  \/ SumInterval
  \/ SumEnd
  \/ SkipChromosome
  \/ NextChromosome

SpecChrom == InitChrom /\ [][NextChrom]_vars

\* The exon-junction counter on one chromosome: up to MaxExons exons, whose
\* identifiers are distinct and follow the order of the annotation, not the
\* order of the coordinates, and up to MaxJctReads records.
ExonCoords == {<<0, 1>>, <<0, 2>>, <<2, 3>>, <<3, 4>>}

ExonLists ==
  UNION { { [k \in 1..n |-> IntervalLabelId(c[k][1], c[k][2], l[k], k - 1)] :
              c \in [1..n -> ExonCoords], l \in [1..n -> {0, 1}] } :
          n \in 0..MaxExons }

JctCigars ==
  { <<Op("M", 1), Op("N", 1), Op("M", 1)>>,
    <<Op("M", 1), Op("N", 2), Op("M", 1)>>,
    <<Op("S", 1), Op("I", 1), Op("M", 1), Op("D", 1), Op("N", 1), Op("M", 1),
      Op("H", 1)>>,
    <<Op("M", 1), Op("N", 1), Op("=", 1)>> }

JctRecords ==
  { Rec("a", p, p, 30, {}, 0, c) : p \in Positions, c \in JctCigars }
  \cup { Rec("a", 0, 0, 30, {"DUP"}, 0, <<Op("M", 1), Op("N", 1), Op("M", 1)>>),
         Rec("a", 0, 0, 10, {}, 0, <<Op("M", 1), Op("N", 1), Op("M", 1)>>) }

InitJct ==
  /\ mode = "junction" /\ pc = "sort"
  /\ minQual \in {0, 20}
  /\ targetLen = JctLen
  /\ cov = ZeroCov(JctLen)
  /\ gRegions \in ExonLists
  /\ InitCommon /\ NoReduction /\ NoIntervals /\ OneChromosome

NextJct ==
  \/ SortRegions
  \/ \E rec \in JctRecords : JctRead(rec)
  \/ JctEnd
  \/ WriteJunctions

SpecJct == InitJct /\ [][NextJct]_vars

---------------------------------------------------------------------------
(* Properties of the pair resolver *)

Max(a, b) == IF a > b THEN a ELSE b

\* The fragment a record belongs to, read off the record itself.
Fragment(rec) == <<rec.name, Min(rec.pos, rec.mpos), Max(rec.pos, rec.mpos)>>

Mates(r1, r2) == r1.name = r2.name /\ r1.pos = r2.mpos /\ r1.mpos = r2.pos

Idx(s) == 1..Len(s)

\* Distinct pairs have distinct fragment keys: the records of one fragment
\* are at most two, and mates of each other.
DistinctKeys(s) ==
  \A i, j \in Idx(s) :
    (i < j /\ Fragment(s[i]) = Fragment(s[j]))
      => /\ Mates(s[i], s[j])
         /\ \A k \in Idx(s) : Fragment(s[k]) = Fragment(s[i]) => k \in {i, j}

\* Distinct pairs have distinct query names: the records of one name are at
\* most two, and mates of each other.
DistinctNames(s) ==
  \A i, j \in Idx(s) :
    (i < j /\ s[i].name = s[j].name)
      => /\ Mates(s[i], s[j])
         /\ \A k \in Idx(s) : s[k].name = s[i].name => k \in {i, j}

\* What the claim lists as the individual filter.
PassesFilter(rec, mq) ==
  /\ "PAIRED" \in rec.flag
  /\ rec.flag \cap {"SECONDARY", "QCFAIL", "DUP", "SUPPLEMENTARY", "UNMAP", "MUNMAP"} = {}
  /\ rec.tid = rec.mtid
  /\ rec.qual >= mq

EmissionsOf(f) == { n \in Idx(emitted) : Fragment(emitted[n].rec) = f }

\* Every pair of the stream has the emissions the claim promises.
PairsResolved ==
  \A i, j \in Idx(stream) :
    (i < j /\ Mates(stream[i], stream[j]))
      => LET q == Min(stream[i].qual, stream[j].qual)
             e == EmissionsOf(Fragment(stream[i]))
         IN  IF PassesFilter(stream[i], minQual) /\ PassesFilter(stream[j], minQual)
                /\ q >= minQual
             THEN Cardinality(e) = 1 /\ \A n \in e : emitted[n].pairQuality = q
             ELSE e = {}

\* C1 as stated: in a position-sorted stream whose pairs have distinct
\* fragment keys, every pair whose mates both pass the filter and whose
\* combined quality reaches the minimum is emitted exactly once, with quality
\* min(q1,q2), and a pair with a failing mate is not emitted.
C1_OnePerPair_DistinctKeys == DistinctKeys(stream) => PairsResolved

\* C1 amended: the same, for streams whose pairs have distinct query names.
C1_OnePerPair_DistinctNames == DistinctNames(stream) => PairsResolved

\* The scenario of C1: mates at one position, qualities 30 and 25, minimum 20:
\* one fragment of quality 25.
C1_Witness ==
  /\ minQual = 20 /\ Len(stream) = 2 /\ Len(emitted) = 1
  /\ stream[1].pos = stream[1].mpos /\ Mates(stream[1], stream[2])
  /\ {stream[1].qual, stream[2].qual} = {25, 30}
  /\ emitted[1].pairQuality = 25

\* C3: a record that looks up, as a second mate, a key whose entry a second
\* mate has already overwritten with the sentinel emits nothing and changes
\* neither the depth counters nor the valid-pair set, whatever the minimum
\* quality.
C3_ConsumedKeyIgnored ==
  [][ (Len(stream') = Len(stream) + 1
       /\ LET rec == stream'[Len(stream')]
          IN  /\ PassesFilter(rec, minQual)
              /\ ~IsFirst(rec, IF rec.pos > lastAlignedPos THEN {}
                               ELSE lastAlignedPosReads)
              /\ hash_pair_mate(rec) \in consumed)
      => (emitted' = emitted /\ cov' = cov /\ validPairs' = validPairs) ]_vars

\* The stream with the records at i and j exchanged.
Swap(s, i, j) == [k \in Idx(s) |-> IF k = i THEN s[j] ELSE IF k = j THEN s[i] ELSE s[k]]

SamePosMates(r1, r2) ==
  /\ r1.name = r2.name
  /\ r1.pos = r1.mpos /\ r2.pos = r2.mpos /\ r1.pos = r2.pos

EmissionView(em) == [n \in Idx(em) |-> <<em[n].hv, em[n].pairQuality>>]

\* C2 in window-counting mode: exchanging the two mates of a same-position
\* pair leaves the emissions, their qualities and the depth array the same.
C2_CountOrder ==
  (mode = "count")
    => \A i, j \in Idx(stream) :
         (i < j /\ SamePosMates(stream[i], stream[j]))
           => LET o == CountRun(Swap(stream, i, j), minQual, targetLen)
              IN  /\ o.cov = cov
                  /\ EmissionView(o.emitted) = EmissionView(emitted)

\* C2 in track mode: after the coverage pass, the valid pairs and the depth
\* array are those of the stream with the two mates exchanged.
C2_TrackOrder ==
  (mode = "track" /\ pc \in {"rle", "reduce"})
    => \A i, j \in Idx(stream) :
         (i < j /\ SamePosMates(stream[i], stream[j]))
           => /\ PreRun(Swap(stream, i, j), minQual) = validPairs
              /\ CoverRun(Swap(stream, i, j), minQual, targetLen).cov = cov

\* C2: order independence for a pair whose mates share one position, in both
\* modes.
C2_OrderIndependent == C2_CountOrder /\ C2_TrackOrder

---------------------------------------------------------------------------
(* Properties of the filter and of the depth counters *)

\* The record the step from the current state to the next one consumes, in a
\* resolving pass (it is appended to the stream) or in the coverage pass.
Reads(rec) ==
  \/ (Len(stream') = Len(stream) + 1 /\ rec = stream'[Len(stream')])
  \/ (idx' = idx + 1 /\ rec = stream[idx'])

DroppedByFilter(rec, mq) ==
  \/ "SECONDARY" \in rec.flag \/ "QCFAIL" \in rec.flag \/ "DUP" \in rec.flag
  \/ "SUPPLEMENTARY" \in rec.flag \/ "UNMAP" \in rec.flag \/ "MUNMAP" \in rec.flag
  \/ "PAIRED" \notin rec.flag
  \/ rec.tid # rec.mtid
  \/ rec.qual < mq

\* C4: a record the filter rejects is dropped without error and leaves the
\* pending quality table, the per-position name set, the last-seen position,
\* the valid-pair set and the depth array unchanged.
C4_FilteredRecordChangesNothing ==
  [][ \A rec \in CountRecords \cup TrackRecords :
        (Reads(rec) /\ DroppedByFilter(rec, minQual))
          => /\ UNCHANGED <<qualities, lastAlignedPosReads, lastAlignedPos,
                            validPairs, cov, emitted, oob>>
             /\ pc' = pc ]_vars

\* A rejected record was read while an entry was pending and a name recorded.
C4_Witness ==
  /\ Len(stream) >= 2
  /\ DroppedByFilter(stream[Len(stream)], minQual)
  /\ "SUPPLEMENTARY" \in stream[Len(stream)].flag
  /\ DOMAIN qualities # {} /\ lastAlignedPosReads # {} /\ lastAlignedPos = 1

\* C5: no step makes a depth counter smaller, in either mode.
C5_CountersNeverDecrease ==
  [][ \A b \in DOMAIN cov : cov'[b] >= cov[b] ]_vars

\* An increment met a counter at its saturation value and was withheld.
C5_Witness == clamped /\ \E b \in DOMAIN cov : cov[b] = maxCoverage

\* C6: every depth counter is at most max-1, in both modes.
C6_CountersBelowMax == \A b \in DOMAIN cov : cov[b] <= maxCoverage - 1

\* C7: a reference position at or beyond the chromosome length is ignored; no
\* element outside the depth array is read or written.
C7_NoAccessBeyondLength == ~oob

---------------------------------------------------------------------------
(* Properties of the CIGAR walk *)

RECURSIVE RefLen(_)
RefLen(cigar) ==
  IF cigar = <<>> THEN 0
  ELSE (IF Head(cigar).op \in {"M", "=", "X", "D", "N"} THEN Head(cigar).len ELSE 0)
       + RefLen(Tail(cigar))

RECURSIVE MatchLen(_)
MatchLen(cigar) ==
  IF cigar = <<>> THEN 0
  ELSE (IF Head(cigar).op \in {"M", "=", "X"} THEN Head(cigar).len ELSE 0)
       + MatchLen(Tail(cigar))

\* Base b is under a match, equal or mismatch operation of rec.
CoveredBy(rec, b) ==
  \E i \in 1..Len(rec.cigar) :
    LET from == rec.pos + RefLen(SubSeq(rec.cigar, 1, i - 1))
    IN  /\ rec.cigar[i].op \in {"M", "=", "X"}
        /\ from <= b /\ b < from + rec.cigar[i].len

\* The records the coverage pass lets contribute.
Contributes(rec) ==
  /\ PassesFilter(rec, minQual)
  /\ (IF rec.pos <= rec.mpos THEN hash_pair(rec) ELSE hash_pair_mate(rec)) \in validPairs

Contributors == { i \in Idx(stream) : Contributes(stream[i]) }

Expected(b) == Cardinality({ i \in Contributors : CoveredBy(stream[i], b) })

RECURSIVE SumOver(_, _)
SumOver(f, dom) ==
  IF dom = {} THEN 0
  ELSE LET x == CHOOSE y \in dom : TRUE IN f[x] + SumOver(f, dom \ {x})

AccumulationDone == mode = "track" /\ pc \in {"rle", "reduce"}

Inside == \A i \in Contributors : stream[i].pos + RefLen(stream[i].cigar) <= targetLen

Unsaturated == \A b \in DOMAIN cov : Expected(b) <= maxCoverage

\* C8: in per-base coverage mode, when no counter saturates and every position
\* lies inside the chromosome, each counter is the number of match, equal and
\* mismatch bases of contributing records over it, and the array sums to the
\* number of such bases.
C8_DepthIsMatchedBases ==
  (AccumulationDone /\ Inside /\ Unsaturated)
    => /\ \A b \in DOMAIN cov : cov[b] = Expected(b)
       /\ SumOver(cov, DOMAIN cov)
            = SumOver([i \in Contributors |-> MatchLen(stream[i].cigar)], Contributors)

\* A valid pair with a deletion, an insertion, a clip or a skip was accumulated.
C8_Witness ==
  /\ AccumulationDone /\ Inside /\ Unsaturated
  /\ Cardinality(Contributors) >= 2
  /\ \E i \in Contributors : \E k \in 1..Len(stream[i].cigar) :
       stream[i].cigar[k].op \in {"D", "N"}
  /\ \E i \in Contributors : \E k \in 1..Len(stream[i].cigar) :
       stream[i].cigar[k].op \in {"I", "S", "H"}

Recognised == {"M", "=", "X", "I", "D", "N", "S", "H"}

\* C9: once the coverage pass has walked a CIGAR with an operation kind
\* outside the recognised ones, processing of the chromosome has stopped.
C9_UnknownOpAborts ==
  (mode = "track" /\ \E i \in 1..idx :
       /\ Contributes(stream[i])
       /\ \E k \in 1..Len(stream[i].cigar) : stream[i].cigar[k].op \notin Recognised)
    => pc \notin {"cover", "rle", "reduce"}

---------------------------------------------------------------------------
(* Properties of the run-length encoding *)

SegmentsAt(b) == { k \in Idx(tl) : tl[k].start <= b /\ b < tl[k].end }

\* C10: with no reduction and a score factor of 1 the segment list is the list
\* of maximal runs of equal values: adjacent segments differ in score, and
\* every base lies in exactly one segment, whose score is its depth.
C10_RunLengthRoundTrip ==
  (pc = "reduce")
    => /\ \A b \in DOMAIN cov :
            /\ Cardinality(SegmentsAt(b)) = 1
            /\ \A k \in SegmentsAt(b) : tl[k].score = Dbl(cov[b])
       /\ \A k \in Idx(tl) : tl[k].start < tl[k].end /\ tl[k].end <= targetLen
       /\ \A k \in 1..(Len(tl) - 1) : tl[k].score # tl[k + 1].score
       /\ (cov = [b \in 0..5 |-> IF b \in {2, 3, 4} THEN 3 ELSE 0])
            => tl = <<Track(0, 2, Dbl(0)), Track(2, 5, Dbl(3)), Track(5, 6, Dbl(0))>>

\* The scenario of C10: [0,0,3,3,3,0] has been encoded.
C10_Witness ==
  /\ pc = "reduce"
  /\ cov = [b \in 0..5 |-> IF b \in {2, 3, 4} THEN 3 ELSE 0]
  /\ Len(tl) = 3

---------------------------------------------------------------------------
(* Properties of the segment list and of the reduction loop *)

\* A list of segments or rows that is ordered by start, contiguous, and covers
\* [0, len) exactly once.
Covers(t, len) ==
  /\ Len(t) >= 1
  /\ t[1].start = 0 /\ t[Len(t)].end = len
  /\ \A k \in Idx(t) : t[k].start < t[k].end
  /\ \A k \in 1..(Len(t) - 1) :
       t[k].end = t[k + 1].start /\ t[k].start < t[k + 1].start

\* C11: in track mode, when the chromosome has been processed, with or without
\* a valid pair, the rows written for it are ordered by start, contiguous, and
\* cover [0, chromosome length) exactly once.
C11_RowsCoverChromosome == (mode = "track" /\ pc = "done") => Covers(out, targetLen)

\* C12: at the start and at the end of every pass of the reduction loop the
\* segment list is ordered by start, every segment has start < end, consecutive
\* segments meet, the first starts at 0 and the last ends at the chromosome
\* length.
C12_SegmentListWellFormed ==
  (mode = "track" /\ pc \in {"reduce", "reducing"}) => Covers(tl, targetLen)

\* A pass merged more than two segments into fewer and left more than one.
C12_Witness ==
  /\ pc = "reducing" /\ passes = 1
  /\ Len(tl) >= 2 /\ Len(tl) + 2 <= origs
  /\ \E k \in Idx(tl) : tl[k].score.den > 1

\* C13: for every resolution strictly between 0 and 1, each iteration of the
\* reduction loop merges at least once, so the segment count strictly
\* decreases, and the loop runs at most (original segment count - 1) times.
C13_EveryPassMerges ==
  [][ (passes' = passes + 1)
      => (Len(tl') < Len(tl) /\ passes' <= origs' - 1) ]_vars

\* What the claim calls a resolution outside the open interval (0, 1).
ResolutionDisabled(r) == ~r.absorbed /\ (r.num <= 0 \/ r.num >= r.den)

RowsAt(b) == { k \in Idx(out) : out[k].start <= b /\ b < out[k].end }

\* C14: with a resolution <= 0 or >= 1 the reduction loop is never entered and
\* the rows are the maximal run-length encoding of the depth array: every base
\* lies in exactly one row, whose score is its depth, and adjacent rows differ
\* in score.
C14_NoReductionKeepsEncoding ==
  (mode = "track" /\ pc = "done" /\ out # <<>> /\ ResolutionDisabled(resolution)
     /\ normFactor = Dbl(1))
    => /\ passes = 0
       /\ out = [k \in Idx(tl) |-> [chr |-> refIndex, start |-> tl[k].start,
                                      end |-> tl[k].end, score |-> tl[k].score]]
       /\ \A b \in DOMAIN cov :
            /\ Cardinality(RowsAt(b)) = 1
            /\ \A k \in RowsAt(b) : out[k].score = Dbl(cov[b])
       /\ \A k \in 1..(Len(out) - 1) : out[k].score # out[k + 1].score

\* Rows were written for an array of several runs with the resolution at 0.
C14_Witness ==
  /\ pc = "done" /\ resolution = Res(0, 1) /\ Len(out) >= 3

\* floor((currentRatio - targetResolution) * currentSegmentCount), in exact
\* arithmetic.
ExactRankProduct(rd, r, size) ==
  IF r.absorbed
  THEN LET x == RMul(rd, Dbl(size)) IN IF x.den = 1 THEN x.num - 1 ELSE Trunc(x)
  ELSE Trunc(RMul(RSub(rd, Frac(r.num, r.den)), Dbl(size)))

SortedCostsOf(t, e) ==
  /\ Len(e) = Len(t) - 1
  /\ \A k \in 1..(Len(e) - 1) : RLe(e[k], e[k + 1])
  /\ \A c \in {Nerr(t[k], t[k + 1]) : k \in 1..(Len(t) - 1)} \cup {e[k] : k \in Idx(e)} :
       Cardinality({k \in 1..(Len(t) - 1) : Nerr(t[k], t[k + 1]) = c})
         = Cardinality({k \in Idx(e) : e[k] = c})

DoubleRankProduct(rd, r, size) ==
  IF r.absorbed THEN Trunc(RMul(rd, Dbl(size)))
  ELSE Trunc(RMul(RSub(rd, Frac(r.num, r.den)), Dbl(size)))

RECURSIVE WeightedTotal(_)
WeightedTotal(t) ==
  IF t = <<>> THEN Dbl(0)
  ELSE RAdd(RMul(Dbl(Width(Head(t))), Head(t).score), WeightedTotal(Tail(t)))

\* The segments of t that lie inside the segment seg.
Within(t, seg) == SelectSeq(t, LAMBDA x : seg.start <= x.start /\ x.end <= seg.end)

\* C21: every segment after a pass starts where the leftmost of the segments
\* it replaces started, ends where the rightmost ended, and has their
\* width-weighted mean as score; the width-weighted total after every pass is
\* that of the initial run-length encoding.
C21_MergeKeepsWeightedTotal ==
  [][ (passes' = passes + 1)
      => /\ \A k \in Idx(tl') :
              LET old == Within(tl, tl'[k])
              IN  /\ old # <<>>
                  /\ tl'[k].start = old[1].start
                  /\ tl'[k].end = old[Len(old)].end
                  /\ tl'[k].score
                       = RDiv(WeightedTotal(old), Dbl(Width(tl'[k])))
         /\ WeightedTotal(tl') = WeightedTotal(TrackLineOf(cov, targetLen)) ]_vars

\* A second pass ended with a segment merged from segments of unequal width
\* and score.
C21_Witness ==
  /\ pc = "reducing" /\ passes = 2 /\ Len(tl) < origs
  /\ \E k \in Idx(tl) : Width(tl[k]) >= 3 /\ tl[k].score.den = 3

\* C22: in every iteration of the reduction loop, which runs only for a
\* resolution strictly between 0 and 1, the rank that indexes the sorted cost
\* list is a valid index of it: 0 <= rank <= (segment count - 2), the list
\* holding one cost per adjacent pair.
C22_RankIsValidIndex ==
  [][ (passes' = passes + 1)
      => /\ Len(errs') = Len(tl) - 1
         /\ 0 <= bpidx' /\ bpidx' <= Len(tl) - 2 ]_vars

---------------------------------------------------------------------------
(* Properties of the reporting intervals *)

Summed == mode = "count" /\ pc \in {"sum", "done", "crashed"}

\* C15: for every reporting interval [start, end) the reported aggregate is
\* the sum of the depth-array values at the indices start..end-1, against the
\* depth array as it was before the summation; [2,5) against [1,1,5,5,5,1]
\* gives 15.
C15_AggregateIsSumOfDepths ==
  Summed
    => \A i \in Idx(out) :
         LET span == out[i].start..(out[i].end - 1)
         IN  /\ span \subseteq DOMAIN cov
             /\ out[i].covsum = SumOver(cov, span \cap DOMAIN cov)
             /\ (cov = ScenarioCov /\ out[i].start = 2 /\ out[i].end = 5)
                  => out[i].covsum = 15

\* The windows of the claim: generated, with the offset equal to the size or
\* from a window count above 0.
PartitionWindows ==
  ~hasIntervalFile /\ (window.num > 0 \/ window.offset = window.size)

C17_IntervalsInsideChromosome ==
  Summed
    => /\ \A i \in Idx(itv) :
            0 <= itv[i].start /\ itv[i].start < itv[i].end /\ itv[i].end <= targetLen
       /\ ~oob

---------------------------------------------------------------------------
(* Properties of the coverage pass *)

CoverageDone == mode = "track" /\ pc \in {"rle", "reduce", "reducing", "done"}

\* C19: in track mode the records whose CIGAR is walked are those that pass the
\* individual filter and whose key is in the valid-pair set; both mates of every
\* pair the pre-pass validated are walked, and every walked record belongs to a
\* fragment the pre-pass validated.
C19_ContributorsAreValidPairs ==
  CoverageDone
    => /\ walked = Contributors
       /\ \A n \in Idx(emitted) :
            \E i, j \in walked :
              i < j /\ stream[j] = emitted[n].rec /\ Mates(stream[i], stream[j])
       /\ \A i \in walked :
            \E n \in Idx(emitted) : Fragment(stream[i]) = Fragment(emitted[n].rec)

\* Both mates of a pair at one position were walked, and a record that passes
\* the filter but belongs to no valid pair was not.
C19_Witness ==
  /\ CoverageDone
  /\ \E i, j \in walked :
       i < j /\ SamePosMates(stream[i], stream[j])
  /\ \E k \in Idx(stream) \ walked : PassesFilter(stream[k], minQual)

---------------------------------------------------------------------------
(* Properties of the pending quality table across chromosomes and passes *)

Resolving == pc \in {"count", "prepass", "normalize"}

\* C20: the pending quality table is empty at the start of every resolving
\* pass of every chromosome, and every entry it holds was inserted by a record
\* read in the current pass of the current chromosome.
C20_TableEmptyAtPassStart ==
  Resolving
    => /\ (stream = <<>>) => qualities = EmptyMap
       /\ \A k \in DOMAIN qualities :
            \E i \in Idx(stream) :
              /\ PassesFilter(stream[i], minQual)
              /\ stream[i].tid = refIndex
              /\ hash_pair(stream[i]) = k

\* The pre-pass of the second chromosome starts after the first chromosome
\* left an entry pending in the normalization pass and in its own pre-pass.
C20_Witness ==
  /\ mode = "track" /\ normalize > 0 /\ pc = "prepass"
  /\ refIndex = 1 /\ stream = <<>>
  /\ Len(file[1]) = 1 /\ PassesFilter(file[1][1], minQual)

---------------------------------------------------------------------------
(* Properties of the exon-junction counter *)

JctPasses(rec, mq) == rec.flag \cap {"QCFAIL", "DUP", "UNMAP"} = {} /\ rec.qual >= mq

\* The record has a reference skip from the end of exon a to the start of
\* exon b.
Spans(rec, a, b) ==
  \E k \in Idx(rec.cigar) :
    /\ rec.cigar[k].op = "N"
    /\ rec.pos + RefLen(SubSeq(rec.cigar, 1, k - 1)) = a.end
    /\ rec.pos + RefLen(SubSeq(rec.cigar, 1, k)) = b.start

SpanningReads(a, b) ==
  { i \in Idx(stream) : JctPasses(stream[i], minQual) /\ Spans(stream[i], a, b) }

\* The count stored for the unordered pair of exons.
Stored(a, b) ==
  LET k == <<Min(a.eid, b.eid), Max(a.eid, b.eid)>>
  IN  IF k \in DOMAIN ejct THEN ejct[k] ELSE 0

\* C23: the count stored for two annotated exons A and B, whatever the order
\* of their identifiers, is the number of records read so far that pass the
\* filter and have a reference skip from the end of A to the start of B, and
\* the row written for A and B carries that number.
C23_JunctionCountIsSpanningReads ==
  (mode = "junction" /\ pc \in {"junction", "output", "done", "failed"})
    => /\ \A i, j \in Idx(gRegions) :
            gRegions[i].end < gRegions[j].start
              => Stored(gRegions[i], gRegions[j])
                   = Cardinality(SpanningReads(gRegions[i], gRegions[j]))
       /\ \A n \in Idx(intra) :
            intra[n].count = Cardinality(SpanningReads(intra[n].exonA, intra[n].exonB))

=============================================================================
